---- MODULE Spec2Model ----
(***************************************************************************)
(* Model of the cpp-driver core: EventLoop / RoundRobinEventLoopGroup      *)
(* (src/cpp-driver/src/event_loop.cpp) and the QueryRequest encoder        *)
(* (src/src/query_request.cpp).                                            *)
(*                                                                         *)
(* The specifications of the module:                                       *)
(*   Spec / FairSpec  one EventLoop, its loop thread, producer threads     *)
(*                    calling add(), tasks that call add() themselves and  *)
(*                    an owner thread driving init / run / close_handles / *)
(*                    join;                                                *)
(*   GroupSpec        a RoundRobinEventLoopGroup of K member loops: its    *)
(*                    init(), run() and add();                             *)
(*   QuerySpec        a QueryRequest: get_indices(), encode() and          *)
(*                    encode_batch().                                      *)
(***************************************************************************)
EXTENDS Integers, Sequences, FiniteSets, TLC

(* ---------------------------------------------------------------- bounds *)
\* tasks each producer thread passes to add()
MaxTasks == 2
\* close_handles() calls the owner thread makes
MaxClose == 2
\* producer threads of the single-loop specification
Producers == {1, 2}
\* the tasks whose run() calls add() on the loop that runs them, in the
\* workloads that have such tasks
SelfSchedulers == {<< 1, 1 >>}
\* member loops of the group (threads_.size())
GroupSize == 3
\* add() calls each producer thread makes on the group
MaxGroupAdds == 2
\* producer threads of the group specification
GroupProducers == {1, 2}
\* positional parameter slots a request declares, at most
MaxParams == 2
\* bytes of query text, at most
MaxQuery == 1
\* bytes of paging-state token, at most
MaxPagingState == 1
\* encode() calls made on one request
MaxEncodes == 2
\* distinct non-zero codes a member's init() or run() can return
MaxErrorCodes == 2

(* ------------------------------------------------------------- constants *)
SizeofInt32 == 4
SizeofUint16 == 2
SizeofUint8 == 1
ENCODE_ERROR_UNSUPPORTED_PROTOCOL == -1

VARIABLES
  \* ---- EventLoop members
  is_loop_initialized_,  \* bool
  is_joinable_,          \* bool
  is_closing_,           \* Atomic<bool>
  queue_,                \* TaskQueue::queue_, a sequence of tasks
  lock_,                 \* TaskQueue::lock_: "free", or the thread holding it
  async_,                \* the wake handle: [state, pending]
  prepare_,              \* the uv_prepare_t handle: "none" | "started" | "closed"
  \* ---- the build and the threads
  have_sigtimedwait,     \* HAVE_SIGTIMEDWAIT && !HAVE_NOSIGPIPE (compile time)
  schedulers,            \* the workload: the tasks whose run() calls add()
  lpc,                   \* position of the loop thread
  task,                  \* handle_task's local Task* task
  mpc,                   \* position of the owner thread
  init_rc,               \* what init() returned
  run_rc,                \* what run() returned
  closes,                \* close_handles() calls completed
  ppc,                   \* position of each producer inside add()
  added,                 \* add() calls each producer has started
  \* ---- history (observations, never read by the program)
  enqueued,              \* tasks in the order TaskQueue::enqueue accepted them
  executed,              \* tasks in the order task->run() was called
  before_close,          \* tasks enqueued before the first is_closing_.store(true)
  \* ---- RoundRobinEventLoopGroup
  current_,              \* Atomic<size_t> cursor
  gqueue,                \* member loop -> its TaskQueue
  gpending,              \* member loop -> wake pending
  gpc,                   \* group producer -> position inside group add()
  gsel,                  \* group producer -> [ticket, loop] of the add() in progress
  gadded,                \* group producer -> add() calls it has started
  routed,                \* history: one record per completed group add()
  ghandled,              \* history: member loop -> tasks it has run
  gphase,                \* position of the group's owner in init / run
  gmember,               \* member loop -> how far its own init / run got
  ginit,                 \* history: group init(): [rc, outcome]
  grun,                  \* history: group run(): [rc, outcome]
  \* ---- QueryRequest
  query_size,            \* query_.size()
  buffers,               \* buffers(): the positional value buffers (their sizes)
  value_names_,          \* value_names_: names in the order get_indices bound them
  has_names,             \* has_names_for_values() / value_names_index_ allocated
  page_size,             \* page_size()
  paging_state,          \* paging_state().size()
  serial_consistency,    \* serial_consistency()
  bufs,                  \* the caller's BufferVec
  encodes,               \* encode() calls made
  first_ret,             \* history: name -> what get_indices first put in *indices
  call                   \* the last call made on the request and what it returned

loopVars == << is_loop_initialized_, is_joinable_, is_closing_, queue_, lock_, async_,
               prepare_, have_sigtimedwait, schedulers, lpc, task, mpc, init_rc,
               run_rc,
               closes, ppc, added, enqueued, executed, before_close >>
groupVars == << current_, gqueue, gpending, gpc, gsel, gadded, routed, ghandled,
                gphase, gmember, ginit, grun >>
queryVars == << query_size, buffers, value_names_, has_names, page_size,
                paging_state, serial_consistency, bufs, encodes, first_ret,
                call >>
vars == << loopVars, groupVars, queryVars >>

NoTask == << 0, 0 >>

(* ------------------------------------------------------- initial values *)
\* EventLoop::EventLoop(): the three flags are false; no thread, no handles.
LoopInit ==
  /\ is_loop_initialized_ = FALSE
  /\ is_joinable_ = FALSE
  /\ is_closing_ = FALSE
  /\ queue_ = << >>
  /\ lock_ = "free"
  /\ async_ = [state |-> "none", pending |-> FALSE]
  /\ prepare_ = "none"
  /\ have_sigtimedwait \in BOOLEAN
  /\ schedulers \in {{}, SelfSchedulers}
  /\ lpc = "none"
  /\ task = NoTask
  /\ mpc = "new"
  /\ init_rc = 0
  /\ run_rc = 0
  /\ closes = 0
  /\ ppc = [p \in Producers |-> "idle"]
  /\ added = [p \in Producers |-> 0]
  /\ enqueued = << >>
  /\ executed = << >>
  /\ before_close = {}


(* --------------------------------------------------- Async (wake handle) *)
\* Async::start: the handle is open and no wake is pending.
AsyncStart == [state |-> "open", pending |-> FALSE]

\* Async::send: any number of sends before the loop thread observes them leave
\* one pending wake; a send on a handle that is not open wakes nobody.
AsyncSend(a) == IF a.state = "open" THEN [a EXCEPT !.pending = TRUE] ELSE a

\* Async::close_handle: the handle is closed and delivers no further callback.
AsyncCloseHandle(a) == [state |-> "closed", pending |-> FALSE]

(* ------------------------------------------------------------ TaskQueue *)
\* Every TaskQueue method takes lock_ through a ScopedMutex local to its body:
\* it starts only with the lock free and has released it when it returns.
\* TaskQueue::enqueue: push_back under the lock.
TaskQueueEnqueue(q, t) == Append(q, t)

\* A dequeue that pops the newest task instead of the oldest.
TaskQueueDequeueBack(q) ==
  IF q = << >>
    THEN [ok |-> FALSE, task |-> NoTask, queue |-> q, lock |-> "free"]
    ELSE [ok |-> TRUE, task |-> q[Len(q)], queue |-> SubSeq(q, 1, Len(q) - 1),
          lock |-> "free"]

\* A dequeue that returns a task with lock_ still held by the loop thread.
TaskQueueDequeueHoldingLock(q) ==
  IF q = << >>
    THEN [ok |-> FALSE, task |-> NoTask, queue |-> q, lock |-> "free"]
    ELSE [ok |-> TRUE, task |-> Head(q), queue |-> Tail(q), lock |-> "loop"]

\* TaskQueue::dequeue: false when empty, else front() and pop_front() under the
\* lock; lock is the state of lock_ when dequeue has returned.
TaskQueueDequeue(q) ==
  IF q = << >>
    THEN [ok |-> FALSE, task |-> NoTask, queue |-> q, lock |-> "free"]
    ELSE [ok |-> TRUE, task |-> Head(q), queue |-> Tail(q), lock |-> "free"]

\* TaskQueue::is_empty
TaskQueueIsEmpty(q) == q = << >>

(* ------------------------------------------------ EventLoop: owner calls *)
\* The points at which init() can return non-zero, for the build at hand.
InitFailurePoints ==
  {"none", "uv_loop_init", "async_start"}
    \cup (IF have_sigtimedwait
            THEN {"block_sigpipe", "uv_prepare_init", "uv_prepare_start"}
            ELSE {})

\* EventLoop::init, run by the owner before any other thread knows the loop.
EventLoopInit ==
  /\ mpc = "new"
  /\ \E fail \in InitFailurePoints :
       /\ async_' = IF fail = "uv_loop_init" \/ fail = "async_start"
                      THEN async_ ELSE AsyncStart
       /\ is_loop_initialized_' = (fail \notin {"uv_loop_init", "async_start"})
       /\ prepare_' = CASE fail = "none" /\ have_sigtimedwait -> "started"
                        [] fail = "uv_prepare_start" -> "init"
                        [] OTHER -> "none"
       /\ init_rc' = IF fail = "none" THEN 0 ELSE -1
       /\ mpc' = IF fail = "none" THEN "inited" ELSE "init_failed"
  /\ UNCHANGED << is_joinable_, is_closing_, queue_, have_sigtimedwait, schedulers, lpc, task,
                  run_rc, closes, ppc, added, enqueued, executed, before_close,
                  lock_, groupVars, queryVars >>

\* EventLoop::run: uv_thread_create; the new thread enters uv_run.
EventLoopRun ==
  /\ mpc = "inited"
  /\ \E rc \in {0, -1} :
       /\ run_rc' = rc
       /\ is_joinable_' = IF rc = 0 THEN TRUE ELSE is_joinable_
       /\ lpc' = IF rc = 0 THEN "uv_run" ELSE lpc
       /\ mpc' = IF rc = 0 THEN "running" ELSE "run_failed"
  /\ UNCHANGED << is_loop_initialized_, is_closing_, queue_, async_, prepare_,
                  have_sigtimedwait, schedulers, task, init_rc, closes, ppc, added,
                  enqueued, executed, before_close,
                  lock_, groupVars, queryVars >>

\* The set of tasks a sequence holds.
Range(s) == {s[i] : i \in 1..Len(s)}

\* The owner's position inside close_handles(), by where the call was made:
\* on a loop that is initialized and not yet run, or on one that has been run.
CloseSendPc(at) == IF at = "inited" THEN "close_send_inited" ELSE "close_send"

\* The owner's position once close_handles() has returned.
CloseReturnPc(at) == IF at = "close_send_inited" THEN "inited" ELSE "running"

\* A close_handles whose first statement flips the flag instead of setting it.
CloseHandlesStoreToggle ==
  /\ mpc \in {"inited", "running"}
  /\ closes < MaxClose
  /\ is_closing_' = ~is_closing_
  /\ before_close' = IF closes = 0 THEN Range(enqueued) ELSE before_close
  /\ mpc' = CloseSendPc(mpc)
  /\ UNCHANGED << is_loop_initialized_, is_joinable_, queue_, async_, prepare_,
                  have_sigtimedwait, schedulers, lpc, task, init_rc, run_rc, closes, ppc,
                  added, enqueued, executed,
                  lock_, groupVars, queryVars >>

\* EventLoop::close_handles, first statement: is_closing_.store(true). The
\* owner calls it on an initialized loop, before or after run().
CloseHandlesStore ==
  /\ mpc \in {"inited", "running"}
  /\ closes < MaxClose
  /\ is_closing_' = TRUE
  /\ before_close' = IF closes = 0 THEN Range(enqueued) ELSE before_close
  /\ mpc' = CloseSendPc(mpc)
  /\ UNCHANGED << is_loop_initialized_, is_joinable_, queue_, async_, prepare_,
                  have_sigtimedwait, schedulers, lpc, task, init_rc, run_rc, closes, ppc,
                  added, enqueued, executed,
                  lock_, groupVars, queryVars >>

\* A close_handles that sets the flag and returns without waking the loop.
CloseHandlesNoSend ==
  /\ mpc \in {"close_send", "close_send_inited"}
  /\ closes' = closes + 1
  /\ mpc' = CloseReturnPc(mpc)
  /\ UNCHANGED << is_loop_initialized_, is_joinable_, is_closing_, queue_, async_,
                  prepare_, have_sigtimedwait, schedulers, lpc, task, init_rc, run_rc, ppc,
                  added, enqueued, executed, before_close,
                  lock_, groupVars, queryVars >>

\* EventLoop::close_handles, second statement: async_.send().
CloseHandlesSend ==
  /\ mpc \in {"close_send", "close_send_inited"}
  /\ async_' = AsyncSend(async_)
  /\ closes' = closes + 1
  /\ mpc' = CloseReturnPc(mpc)
  /\ UNCHANGED << is_loop_initialized_, is_joinable_, is_closing_, queue_,
                  prepare_, have_sigtimedwait, schedulers, lpc, task, init_rc, run_rc, ppc,
                  added, enqueued, executed, before_close,
                  lock_, groupVars, queryVars >>

\* The owner's position after a join() that found is_joinable_ false and
\* returned at once: after an earlier join(), or after a run() that failed.
JoinNoOpPc(at) ==
  CASE at = "joined" -> "rejoined"
    [] at = "run_failed" -> "run_failed_joined"
    [] OTHER -> "joined"

\* A join() that calls uv_thread_join whatever is_joinable_ says.
JoinBeginUnguarded ==
  /\ \/ mpc = "running" /\ closes > 0
     \/ mpc \in {"joined", "run_failed"}
  /\ is_joinable_' = FALSE
  /\ mpc' = "joining"
  /\ UNCHANGED << is_loop_initialized_, is_closing_, queue_, async_, prepare_,
                  have_sigtimedwait, schedulers, lpc, task, init_rc, run_rc, closes, ppc,
                  added, enqueued, executed, before_close,
                  lock_, groupVars, queryVars >>

\* EventLoop::join up to uv_thread_join. The owner joins a running loop after
\* it has closed it, joins again after join() has returned, or joins a loop
\* whose run() failed.
JoinBegin ==
  /\ \/ mpc = "running" /\ closes > 0
     \/ mpc \in {"joined", "run_failed"}
  /\ IF is_joinable_
       THEN /\ is_joinable_' = FALSE
            /\ mpc' = "joining"
       ELSE /\ is_joinable_' = is_joinable_
            /\ mpc' = JoinNoOpPc(mpc)
  /\ UNCHANGED << is_loop_initialized_, is_closing_, queue_, async_, prepare_,
                  have_sigtimedwait, schedulers, lpc, task, init_rc, run_rc, closes, ppc,
                  added, enqueued, executed, before_close,
                  lock_, groupVars, queryVars >>

\* uv_thread_join returns once the loop thread has exited.
JoinReturn ==
  /\ mpc = "joining"
  /\ lpc = "exited"
  /\ mpc' = "joined"
  /\ UNCHANGED << is_loop_initialized_, is_joinable_, is_closing_, queue_, async_,
                  prepare_, have_sigtimedwait, schedulers, lpc, task, init_rc, run_rc, closes,
                  ppc, added, enqueued, executed, before_close,
                  lock_, groupVars, queryVars >>

(* -------------------------------------------------- EventLoop: producers *)
\* EventLoop::add, first statement: tasks_.enqueue(task). A producer may call
\* add() on a running loop: from the moment run() has succeeded until the
\* owner's join() returns.
AddEnqueue(p) ==
  /\ mpc \in {"running", "close_send", "joining"}
  /\ ppc[p] = "idle"
  /\ added[p] < MaxTasks
  /\ lock_ = "free"
  /\ queue_' = TaskQueueEnqueue(queue_, << p, added[p] + 1 >>)
  /\ enqueued' = Append(enqueued, << p, added[p] + 1 >>)
  /\ added' = [added EXCEPT ![p] = @ + 1]
  /\ ppc' = [ppc EXCEPT ![p] = "send"]
  /\ UNCHANGED << is_loop_initialized_, is_joinable_, is_closing_, async_,
                  prepare_, have_sigtimedwait, schedulers, lpc, task, mpc, init_rc, run_rc,
                  closes, executed, before_close,
                  lock_, groupVars, queryVars >>

\* EventLoop::add, second statement: async_.send().
AddSend(p) ==
  /\ ppc[p] = "send"
  /\ async_' = AsyncSend(async_)
  /\ ppc' = [ppc EXCEPT ![p] = "idle"]
  /\ UNCHANGED << is_loop_initialized_, is_joinable_, is_closing_, queue_,
                  prepare_, have_sigtimedwait, schedulers, lpc, task, mpc, init_rc, run_rc,
                  closes, added, enqueued, executed, before_close,
                  lock_, groupVars, queryVars >>


(* ------------------------------------------------ EventLoop: loop thread *)
\* uv_run delivers the wake: the pending flag is consumed and on_task calls
\* handle_task on the loop thread.
OnTask ==
  /\ lpc = "uv_run"
  /\ async_.state = "open"
  /\ async_.pending
  /\ async_' = [async_ EXCEPT !.pending = FALSE]
  /\ lpc' = "dequeue"
  /\ UNCHANGED << is_loop_initialized_, is_joinable_, is_closing_, queue_,
                  prepare_, have_sigtimedwait, schedulers, task, mpc, init_rc, run_rc, closes,
                  ppc, added, enqueued, executed, before_close,
                  lock_, groupVars, queryVars >>

\* handle_task: the condition of while (tasks_.dequeue(task)).
HandleTaskDequeue ==
  /\ lpc = "dequeue"
  /\ lock_ = "free"
  /\ LET r == TaskQueueDequeue(queue_) IN
       /\ queue_' = r.queue
       /\ lock_' = r.lock
       /\ task' = IF r.ok THEN r.task ELSE task
       /\ lpc' = IF r.ok THEN "task_run" ELSE "load_closing"
  /\ UNCHANGED << is_loop_initialized_, is_joinable_, is_closing_, async_,
                  prepare_, have_sigtimedwait, schedulers, mpc, init_rc, run_rc, closes, ppc,
                  added, enqueued, executed, before_close,
                  groupVars, queryVars >>

\* The task a self-scheduling task passes to add(): thread 0 is the loop thread.
Child(t) == << 0, t[2] >>

\* A handle_task that runs one task for each wake and then leaves the loop.
HandleTaskRunOnce ==
  /\ lpc = "task_run"
  /\ executed' = Append(executed, task)
  /\ IF task \in schedulers
       THEN /\ lock_ = "free"
            /\ queue_' = TaskQueueEnqueue(queue_, Child(task))
            /\ enqueued' = Append(enqueued, Child(task))
            /\ async_' = AsyncSend(async_)
       ELSE UNCHANGED << queue_, enqueued, async_ >>
  /\ lpc' = "load_closing"
  /\ UNCHANGED << is_loop_initialized_, is_joinable_, is_closing_,
                  prepare_, have_sigtimedwait, schedulers, task, mpc, init_rc,
                  run_rc, closes, ppc, added, before_close,
                  lock_, groupVars, queryVars >>

\* handle_task: the body of the while loop, task->run(this) and deallocate.
\* The task may be one that calls add() on the loop that runs it: enqueue of
\* a new task and async_.send(), made by the loop thread inside run().
HandleTaskRun ==
  /\ lpc = "task_run"
  /\ executed' = Append(executed, task)
  /\ IF task \in schedulers
       THEN /\ lock_ = "free"
            /\ queue_' = TaskQueueEnqueue(queue_, Child(task))
            /\ enqueued' = Append(enqueued, Child(task))
            /\ async_' = AsyncSend(async_)
       ELSE UNCHANGED << queue_, enqueued, async_ >>
  /\ lpc' = "dequeue"
  /\ UNCHANGED << is_loop_initialized_, is_joinable_, is_closing_,
                  prepare_, have_sigtimedwait, schedulers, task, mpc, init_rc, run_rc, closes,
                  ppc, added, before_close,
                  lock_, groupVars, queryVars >>

\* handle_task: is_closing_.load(), the left operand of &&.
HandleTaskLoadClosing ==
  /\ lpc = "load_closing"
  /\ lpc' = IF is_closing_ THEN "is_empty" ELSE "uv_run"
  /\ UNCHANGED << is_loop_initialized_, is_joinable_, is_closing_, queue_, async_,
                  prepare_, have_sigtimedwait, schedulers, task, mpc, init_rc, run_rc, closes,
                  ppc, added, enqueued, executed, before_close,
                  lock_, groupVars, queryVars >>

\* A closing test that tears down on the flag alone, without tasks_.is_empty().
HandleTaskSkipIsEmpty ==
  /\ lpc = "is_empty"
  /\ lpc' = "close_handle"
  /\ UNCHANGED << is_loop_initialized_, is_joinable_, is_closing_, queue_, async_,
                  prepare_, have_sigtimedwait, schedulers, task, mpc, init_rc, run_rc, closes,
                  ppc, added, enqueued, executed, before_close,
                  lock_, groupVars, queryVars >>

\* handle_task: tasks_.is_empty(), the right operand of &&.
HandleTaskIsEmpty ==
  /\ lpc = "is_empty"
  /\ lock_ = "free"
  /\ lpc' = IF TaskQueueIsEmpty(queue_) THEN "close_handle" ELSE "uv_run"
  /\ UNCHANGED << is_loop_initialized_, is_joinable_, is_closing_, queue_, async_,
                  prepare_, have_sigtimedwait, schedulers, task, mpc, init_rc, run_rc, closes,
                  ppc, added, enqueued, executed, before_close,
                  lock_, groupVars, queryVars >>

\* handle_task: async_.close_handle() and, in the sigtimedwait build,
\* uv_prepare_stop and uv_close of the prepare handle.
HandleTaskCloseHandle ==
  /\ lpc = "close_handle"
  /\ async_' = AsyncCloseHandle(async_)
  /\ prepare_' = IF have_sigtimedwait THEN "closed" ELSE prepare_
  /\ lpc' = "store_closing"
  /\ UNCHANGED << is_loop_initialized_, is_joinable_, is_closing_, queue_,
                  have_sigtimedwait, schedulers, task, mpc, init_rc, run_rc, closes, ppc,
                  added, enqueued, executed, before_close,
                  lock_, groupVars, queryVars >>

\* A teardown after which handle_task goes back to draining the queue.
HandleTaskStoreClosingRedrain ==
  /\ lpc = "store_closing"
  /\ is_closing_' = FALSE
  /\ lpc' = "dequeue"
  /\ UNCHANGED << is_loop_initialized_, is_joinable_, queue_, async_, prepare_,
                  have_sigtimedwait, schedulers, task, mpc, init_rc, run_rc,
                  closes, ppc, added, enqueued, executed, before_close,
                  lock_, groupVars, queryVars >>

\* handle_task: is_closing_.store(false); handle_task returns into uv_run.
HandleTaskStoreClosing ==
  /\ lpc = "store_closing"
  /\ is_closing_' = FALSE
  /\ lpc' = "uv_run"
  /\ UNCHANGED << is_loop_initialized_, is_joinable_, queue_, async_, prepare_,
                  have_sigtimedwait, schedulers, task, mpc, init_rc, run_rc, closes, ppc,
                  added, enqueued, executed, before_close,
                  lock_, groupVars, queryVars >>

\* handle_run: uv_run returns once the loop has no active handle left; the
\* thread runs on_after_run and exits.
HandleRunExit ==
  /\ lpc = "uv_run"
  /\ async_.state = "closed"
  /\ prepare_ \in {"none", "closed"}
  /\ lpc' = "exited"
  /\ UNCHANGED << is_loop_initialized_, is_joinable_, is_closing_, queue_, async_,
                  prepare_, have_sigtimedwait, schedulers, task, mpc, init_rc, run_rc, closes,
                  ppc, added, enqueued, executed, before_close,
                  lock_, groupVars, queryVars >>

LoopThread ==
  \/ OnTask
  \/ HandleTaskDequeue
  \/ HandleTaskRun
  \/ HandleTaskLoadClosing
  \/ HandleTaskIsEmpty
  \/ HandleTaskCloseHandle
  \/ HandleTaskStoreClosing
  \/ HandleRunExit

(* ---------------------------------------------- RoundRobinEventLoopGroup *)
\* The indices of threads_.
Loops == 0..(GroupSize - 1)

\* What a member's init() or run() returns: 0, or one of the error codes.
ReturnCodes == {0} \cup {-c : c \in 1..MaxErrorCodes}

\* No lifecycle call made yet.
NoLifecycleCall == [rc |-> 0, outcome |-> [i \in Loops |-> 0]]

\* RoundRobinEventLoopGroup's members after construction: the cursor is zero,
\* every member's queue is empty and no wake is pending.
GroupInit ==
  /\ gphase = "new"
  /\ gmember = [i \in Loops |-> "new"]
  /\ ginit = NoLifecycleCall
  /\ grun = NoLifecycleCall
  /\ current_ = 0
  /\ gqueue = [i \in Loops |-> << >>]
  /\ gpending = [i \in Loops |-> FALSE]
  /\ gpc = [p \in GroupProducers |-> "idle"]
  /\ gsel = [p \in GroupProducers |-> [ticket |-> 0, loop |-> 0]]
  /\ gadded = [p \in GroupProducers |-> 0]
  /\ routed = << >>
  /\ ghandled = [i \in Loops |-> << >>]

lifeVars == << gphase, gmember, ginit, grun >>

\* A traversal that calls every member whatever the earlier ones returned and
\* returns the last non-zero code.
RECURSIVE GroupVisitAll(_, _)
GroupVisitAll(outcome, i) ==
  IF i >= GroupSize
    THEN [rc |-> 0, visited |-> i]
    ELSE LET rest == GroupVisitAll(outcome, i + 1) IN
           [rc |-> IF rest.rc # 0 THEN rest.rc ELSE outcome[i],
            visited |-> rest.visited]

\* The for loop of init() and of run(), from index i on: member i is called;
\* a non-zero rc is returned at once, else the loop goes on; 0 after the last.
\* visited is the number of members the call was made on.
RECURSIVE GroupVisit(_, _)
GroupVisit(outcome, i) ==
  IF i >= GroupSize
    THEN [rc |-> 0, visited |-> i]
    ELSE IF outcome[i] # 0
           THEN [rc |-> outcome[i], visited |-> i + 1]
           ELSE GroupVisit(outcome, i + 1)

\* RoundRobinEventLoopGroup::init: outcome[i] is what threads_[i].init()
\* returns if it is called.
RoundRobinInit ==
  /\ gphase = "new"
  /\ \E outcome \in [Loops -> ReturnCodes] :
       LET r == GroupVisit(outcome, 0) IN
         /\ ginit' = [rc |-> r.rc, outcome |-> outcome]
         /\ gmember' = [i \in Loops |->
                          IF i < r.visited
                            THEN IF outcome[i] = 0 THEN "inited" ELSE "init_failed"
                            ELSE gmember[i]]
         /\ gphase' = IF r.rc = 0 THEN "inited" ELSE "init_failed"
  /\ UNCHANGED << current_, gqueue, gpending, gpc, gsel, gadded, routed,
                  ghandled, grun, loopVars, queryVars >>

\* RoundRobinEventLoopGroup::run, on a group whose init() returned 0:
\* outcome[i] is what threads_[i].run() returns if it is called.
RoundRobinRun ==
  /\ gphase = "inited"
  /\ \E outcome \in [Loops -> ReturnCodes] :
       LET r == GroupVisit(outcome, 0) IN
         /\ grun' = [rc |-> r.rc, outcome |-> outcome]
         /\ gmember' = [i \in Loops |->
                          IF i < r.visited
                            THEN IF outcome[i] = 0 THEN "running" ELSE "run_failed"
                            ELSE gmember[i]]
         /\ gphase' = IF r.rc = 0 THEN "running" ELSE "run_failed"
  /\ UNCHANGED << current_, gqueue, gpending, gpc, gsel, gadded, routed,
                  ghandled, ginit, loopVars, queryVars >>

\* A selection that increments before it reads: ++current_ % threads_.size().
RoundRobinSelectPreIncrement(c) == (c + 1) % GroupSize

\* The index add() computes from the value fetch_add returned.
RoundRobinSelect(c) == c % GroupSize

\* RoundRobinEventLoopGroup::add, the atomic current_.fetch_add(1) and the
\* choice of &threads_[... % threads_.size()].
GroupAddFetch(p) ==
  /\ gphase = "running"
  /\ gpc[p] = "idle"
  /\ gadded[p] < MaxGroupAdds
  /\ current_' = current_ + 1
  /\ gsel' = [gsel EXCEPT ![p] = [ticket |-> current_, loop |-> RoundRobinSelect(current_)]]
  /\ gadded' = [gadded EXCEPT ![p] = @ + 1]
  /\ gpc' = [gpc EXCEPT ![p] = "enqueue"]
  /\ UNCHANGED << gqueue, gpending, routed, ghandled, lifeVars,
                  loopVars, queryVars >>

\* event_loop->add(task), first statement: tasks_.enqueue(task) on the member.
GroupAddEnqueue(p) ==
  /\ gpc[p] = "enqueue"
  /\ gqueue' = [gqueue EXCEPT ![gsel[p].loop] =
                  TaskQueueEnqueue(@, [by |-> p, n |-> gadded[p], ticket |-> gsel[p].ticket])]
  /\ gpc' = [gpc EXCEPT ![p] = "send"]
  /\ UNCHANGED << current_, gpending, gsel, gadded, routed, ghandled,
                  lifeVars,
                  loopVars, queryVars >>

\* event_loop->add(task), second statement: async_.send() on the member; then
\* add() returns event_loop.
GroupAddSend(p) ==
  /\ gpc[p] = "send"
  /\ gpending' = [gpending EXCEPT ![gsel[p].loop] = TRUE]
  /\ routed' = Append(routed, [by |-> p, n |-> gadded[p], ret |-> gsel[p].loop])
  /\ gpc' = [gpc EXCEPT ![p] = "idle"]
  /\ UNCHANGED << current_, gqueue, gsel, gadded, ghandled, lifeVars,
                  loopVars, queryVars >>

\* A member loop's thread takes its wake and handle_task drains its queue.
MemberHandleTask(i) ==
  /\ gpending[i]
  /\ gpending' = [gpending EXCEPT ![i] = FALSE]
  /\ ghandled' = [ghandled EXCEPT ![i] = @ \o gqueue[i]]
  /\ gqueue' = [gqueue EXCEPT ![i] = << >>]
  /\ UNCHANGED << current_, gpc, gsel, gadded, routed, lifeVars,
                  loopVars, queryVars >>

GroupNext ==
  \/ RoundRobinInit
  \/ RoundRobinRun
  \/ \E p \in GroupProducers : GroupAddFetch(p)
  \/ \E p \in GroupProducers : GroupAddEnqueue(p)
  \/ \E p \in GroupProducers : GroupAddSend(p)
  \/ \E i \in Loops : MemberHandleTask(i)

(* ----------------------------------------------------------- QueryRequest *)
\* The parameter names a caller may bind: one more than the most slots.
Names == 1..(MaxParams + 1)

\* The protocol versions encode() is asked for: 1, 2 (no named values), 3.
Versions == {1, 2, 3}

\* What an out-of-range read of buffers()[i] may find as the buffer's size.
GarbageSizes == {0, 3}

\* Buffer(size): a buffer of that size with nothing written into it yet. The
\* model keeps, for each buffer, every positional write made into it.
NewBuffer(kind, of, size) ==
  [kind |-> kind, of |-> of, size |-> size, flags |-> {}, count |-> 0, writes |-> << >>]

\* The caller's i-th positional value, already serialized as [bytes]: a 4-byte
\* length and i + 1 bytes of payload.
ValueBuffer(i) == NewBuffer("value", i, SizeofInt32 + i + 1)

\* ValueName::buf, the name serialized as [string]: a 2-byte length and the
\* name's bytes (name nm is nm bytes long).
NameBuffer(nm) == NewBuffer("name", nm, SizeofUint16 + nm)

\* No call has been made yet.
NoCall == [op |-> "none", version |-> 0, name |-> 0, ret |-> 0, indices |-> << >>,
           crashed |-> FALSE, names_before |-> << >>, bufs_before |-> << >>]

\* A request as the caller built it: query text, N positional value buffers (the
\* i-th of size i bytes of payload after its 4-byte length), paging parameters.
QueryInit ==
  /\ query_size \in 0..MaxQuery
  /\ \E n \in 0..MaxParams :
       buffers = [i \in 1..n |-> ValueBuffer(i - 1)]
  /\ value_names_ = << >>
  /\ has_names = FALSE
  /\ page_size \in {-1, 0, 1}
  /\ paging_state \in 0..MaxPagingState
  /\ serial_consistency \in {0, 1}
  /\ bufs = << >>
  /\ encodes = 0
  /\ first_ret = [nm \in Names |-> << >>]
  /\ call = NoCall

\* buffers_count(): the number of positional value buffers.
buffers_count == Len(buffers)

\* elements_count(): the number of bound parameters, the same list.
elements_count == buffers_count

\* this->flags(): the request's own flags byte, none of the bits encode sets.
RequestFlags == {}

\* HashIndex::get: the indices bound to the name, in *indices.
HashIndexGet(names, name) ==
  LET first == CHOOSE i \in 1..Len(names) : names[i] = name
  IN IF \E i \in 1..Len(names) : names[i] = name THEN << first - 1 >> ELSE << >>

\* A get_indices that binds the name without looking it up first.
GetIndicesAlwaysBind(names, name) ==
  IF Len(names) > buffers_count
    THEN [names |-> names, indices |-> << >>]
    ELSE [names |-> Append(names, name), indices |-> << Len(names) >>]

\* QueryRequest::get_indices after the lazy allocation of the index: the
\* lookup, the capacity test and the new binding.
GetIndicesResult(names, name) ==
  LET indices == HashIndexGet(names, name) IN
  IF Len(indices) = 0
    THEN IF Len(names) > buffers_count
           THEN [names |-> names, indices |-> indices]
           ELSE [names |-> Append(names, name), indices |-> Append(indices, Len(names))]
    ELSE [names |-> names, indices |-> indices]

\* QueryRequest::get_indices(name, indices), the caller passing an empty vector;
\* bindings are made before the request is first encoded.
GetIndices(name) ==
  /\ encodes = 0
  /\ LET r == GetIndicesResult(value_names_, name) IN
       /\ has_names' = TRUE
       /\ value_names_' = r.names
       /\ first_ret' = IF first_ret[name] = << >> /\ name \notin {value_names_[i] : i \in 1..Len(value_names_)}
                         THEN [first_ret EXCEPT ![name] = r.indices]
                         ELSE first_ret
       /\ call' = [NoCall EXCEPT !.op = "get_indices", !.name = name,
                                 !.ret = Len(r.indices), !.indices = r.indices,
                                 !.names_before = value_names_, !.bufs_before = bufs]
  /\ UNCHANGED << query_size, buffers, page_size, paging_state, serial_consistency,
                  bufs, encodes, loopVars, groupVars >>

\* Buffer::encode_*: a positional write of len bytes at pos, recorded in the buffer.
BufferWrite(b, field, pos, len) ==
  [b EXCEPT !.writes = Append(@, [field |-> field, at |-> pos, len |-> len])]

\* The bytes encode_long_string and encode_bytes write for n bytes of data.
LongStringLen(n) == SizeofInt32 + n
BytesLen(n) == SizeofInt32 + n

\* A write ends past the size the buffer was allocated with.
Overflows(b) == \E k \in 1..Len(b.writes) : b.writes[k].at + b.writes[k].len > b.size

\* buffers()[i] for the 0-based i: the value buffer, or, past the end of the
\* vector, whatever lies there (a buffer of garbage size g).
BufferAt(i, g) ==
  IF i < buffers_count THEN buffers[i + 1] ELSE NewBuffer("out_of_range", i, g)

\* The buffers copy_buffers_with_names pushes: name, value, name, value, ...
NamedPairs(g) ==
  [k \in 1..(2 * Len(value_names_)) |->
     IF k % 2 = 1 THEN NameBuffer(value_names_[(k + 1) \div 2])
                  ELSE BufferAt((k \div 2) - 1, g)]

\* The running total of copy_buffers_with_names after its first n iterations.
RECURSIVE NamedPairsSize(_, _)
NamedPairsSize(n, g) ==
  IF n = 0 THEN 0
  ELSE NamedPairsSize(n - 1, g) + NameBuffer(value_names_[n]).size + BufferAt(n - 1, g).size

\* A copy whose running total misses the last (name, value) pair it pushes.
CopyBuffersWithNamesShortTotal(g) ==
  [out |-> NamedPairs(g),
   size |-> IF Len(value_names_) = 0 THEN 0
            ELSE NamedPairsSize(Len(value_names_) - 1, g),
   ub |-> Len(value_names_) > buffers_count]

\* QueryRequest::copy_buffers_with_names: what it pushes, what it returns, and
\* whether it read buffers() out of range.
CopyBuffersWithNames(g) ==
  [out |-> NamedPairs(g),
   size |-> NamedPairsSize(Len(value_names_), g),
   ub |-> Len(value_names_) > buffers_count]

\* The total copy_buffers returns: the sizes of the first n value buffers.
RECURSIVE ValuesSize(_)
ValuesSize(n) == IF n = 0 THEN 0 ELSE ValuesSize(n - 1) + buffers[n].size

\* copy_buffers: pushes the positional value buffers in order and returns the
\* sum of their sizes.
CopyBuffers == [out |-> buffers, size |-> ValuesSize(buffers_count), ub |-> FALSE]

\* QueryRequest::internal_encode_v1: one buffer, <query> [long string] +
\* <consistency> [short].
InternalEncodeV1 ==
  LET length == SizeofInt32 + query_size + SizeofUint16
      b0 == NewBuffer("v1", 0, length)
      b1 == BufferWrite(b0, "query", 0, LongStringLen(query_size))
      b2 == BufferWrite(b1, "consistency", LongStringLen(query_size), SizeofUint16)
  IN [ret |-> length, out |-> << b2 >>, ub |-> Overflows(b2)]

\* encode_internal's test for reserving the page-size field and setting its flag.
PageSizeCounted == page_size > 0

\* encode_internal's test for writing the page-size field.
PageSizeWritten == page_size >= 0

\* encode_internal, the sizes and flags computed before any buffer is allocated.
QueryBufSize ==
  SizeofInt32 + query_size + SizeofUint16 + SizeofUint8
    + (IF elements_count > 0 THEN SizeofUint16 ELSE 0)

PagingBufSize ==
  (IF PageSizeCounted THEN SizeofInt32 ELSE 0)
    + (IF paging_state # 0 THEN SizeofInt32 + paging_state ELSE 0)
    + (IF serial_consistency # 0 THEN SizeofUint16 ELSE 0)

EncodeFlags ==
  RequestFlags
    \cup (IF elements_count > 0 THEN {"VALUES"} ELSE {})
    \cup (IF PageSizeCounted THEN {"PAGE_SIZE"} ELSE {})
    \cup (IF paging_state # 0 THEN {"PAGING_STATE"} ELSE {})
    \cup (IF serial_consistency # 0 THEN {"SERIAL_CONSISTENCY"} ELSE {})

\* encode_internal, the first block: the body buffer is pushed and filled, then
\* the values are appended, or the version is refused.
EncodeBody(version, g) ==
  LET pos1 == LongStringLen(query_size)
      pos2 == pos1 + SizeofUint16
      pos3 == pos2 + SizeofUint8
      b0 == NewBuffer("body", 0, QueryBufSize)
      b1 == BufferWrite(b0, "query", 0, LongStringLen(query_size))
      b2 == BufferWrite(b1, "consistency", pos1, SizeofUint16)
      b3 == [BufferWrite(b2, "flags", pos2, SizeofUint8) EXCEPT !.flags = EncodeFlags]
      named == CopyBuffersWithNames(g)
      bn == [BufferWrite(b3, "n", pos3, SizeofUint16) EXCEPT !.count = Len(value_names_)]
      bp == [BufferWrite(b3, "n", pos3, SizeofUint16) EXCEPT !.count = buffers_count]
  IN IF has_names
       THEN IF version < 3
              THEN [ok |-> FALSE, length |-> QueryBufSize, out |-> << b3 >>,
                    ub |-> Overflows(b3)]
              ELSE [ok |-> TRUE, length |-> QueryBufSize + named.size,
                    out |-> << bn >> \o named.out, ub |-> Overflows(bn) \/ named.ub]
       ELSE IF buffers_count > 0
              THEN [ok |-> TRUE, length |-> QueryBufSize + CopyBuffers.size,
                    out |-> << bp >> \o CopyBuffers.out, ub |-> Overflows(bp)]
              ELSE [ok |-> TRUE, length |-> QueryBufSize, out |-> << b3 >>,
                    ub |-> Overflows(b3)]

\* encode_internal, the second block: the paging buffer, when its size is not 0.
EncodePaging ==
  LET b0 == NewBuffer("paging", 0, PagingBufSize)
      pos1 == IF PageSizeWritten THEN SizeofInt32 ELSE 0
      b1 == IF PageSizeWritten THEN BufferWrite(b0, "page_size", 0, SizeofInt32) ELSE b0
      pos2 == IF paging_state # 0 THEN pos1 + BytesLen(paging_state) ELSE pos1
      b2 == IF paging_state # 0
              THEN BufferWrite(b1, "paging_state", pos1, BytesLen(paging_state)) ELSE b1
      b3 == IF serial_consistency # 0
              THEN BufferWrite(b2, "serial_consistency", pos2, SizeofUint16) ELSE b2
  IN IF PagingBufSize > 0
       THEN [length |-> PagingBufSize, out |-> << b3 >>, ub |-> Overflows(b3)]
       ELSE [length |-> 0, out |-> << >>, ub |-> FALSE]

\* QueryRequest::encode_internal: what it returns, the buffers it appends to
\* *bufs, and whether it read or wrote out of bounds on the way.
EncodeInternal(version, g) ==
  LET body == EncodeBody(version, g) IN
  IF ~body.ok
    THEN [ret |-> ENCODE_ERROR_UNSUPPORTED_PROTOCOL, out |-> body.out, ub |-> body.ub]
    ELSE [ret |-> body.length + EncodePaging.length,
          out |-> body.out \o EncodePaging.out,
          ub |-> body.ub \/ EncodePaging.ub]

\* QueryRequest::encode(version, bufs, cache). An out-of-bounds read or write is
\* undefined: the call may go on with what it found, or the process may die.
\* A request is encoded on its own, by encode(), or as a statement of a batch,
\* by encode_batch(): one request does not see both.
Encode(version) ==
  /\ encodes < MaxEncodes
  /\ call.op # "encode_batch"
  /\ \E g \in GarbageSizes : \E crash \in BOOLEAN :
       LET r == IF version = 1 THEN InternalEncodeV1 ELSE EncodeInternal(version, g) IN
         /\ crash => r.ub
         /\ bufs' = bufs \o r.out
         /\ call' = [NoCall EXCEPT !.op = "encode", !.version = version,
                                   !.ret = IF crash THEN 0 ELSE r.ret,
                                   !.crashed = crash,
                                   !.names_before = value_names_,
                                   !.bufs_before = bufs]
  /\ encodes' = encodes + 1
  /\ UNCHANGED << query_size, buffers, value_names_, has_names, page_size,
                  paging_state, serial_consistency, first_ret, loopVars, groupVars >>

\* encode_batch, the size it allocates its buffer with.
BatchBufSize == SizeofUint8 + SizeofUint16 + query_size + SizeofUint16

\* QueryRequest::encode_batch: <kind> [byte], <query> [long string], then, for a
\* request with values, <n> [short] and the values. What it returns, the
\* buffers it appends to *bufs, and whether it read or wrote out of bounds.
EncodeBatchBuffers(version, g) ==
  LET pos1 == SizeofUint8
      pos2 == pos1 + LongStringLen(query_size)
      b0 == NewBuffer("batch", 0, BatchBufSize)
      b1 == BufferWrite(b0, "kind", 0, SizeofUint8)
      b2 == BufferWrite(b1, "query", pos1, LongStringLen(query_size))
      named == CopyBuffersWithNames(g)
      bn == [BufferWrite(b2, "n", pos2, SizeofUint16) EXCEPT !.count = Len(value_names_)]
      bp == [BufferWrite(b2, "n", pos2, SizeofUint16) EXCEPT !.count = buffers_count]
  IN IF has_names
       THEN IF version < 3
              THEN [ret |-> ENCODE_ERROR_UNSUPPORTED_PROTOCOL, out |-> << b2 >>,
                    ub |-> Overflows(b2)]
              ELSE [ret |-> BatchBufSize + named.size,
                    out |-> << bn >> \o named.out, ub |-> Overflows(bn) \/ named.ub]
       ELSE IF buffers_count > 0
              THEN [ret |-> BatchBufSize + CopyBuffers.size,
                    out |-> << bp >> \o CopyBuffers.out, ub |-> Overflows(bp)]
              ELSE [ret |-> BatchBufSize, out |-> << b2 >>, ub |-> Overflows(b2)]

\* QueryRequest::encode_batch(version, bufs), the request encoded as one
\* statement of a batch. An out-of-bounds read or write is undefined: the call
\* may go on with what it found, or the process may die.
EncodeBatch(version) ==
  /\ encodes < MaxEncodes
  /\ call.op # "encode"
  /\ \E g \in GarbageSizes : \E crash \in BOOLEAN :
       LET r == EncodeBatchBuffers(version, g) IN
         /\ crash => r.ub
         /\ bufs' = bufs \o r.out
         /\ call' = [NoCall EXCEPT !.op = "encode_batch", !.version = version,
                                   !.ret = IF crash THEN 0 ELSE r.ret,
                                   !.crashed = crash,
                                   !.names_before = value_names_,
                                   !.bufs_before = bufs]
  /\ encodes' = encodes + 1
  /\ UNCHANGED << query_size, buffers, value_names_, has_names, page_size,
                  paging_state, serial_consistency, first_ret, loopVars, groupVars >>

QueryNext ==
  \/ \E nm \in Names : GetIndices(nm)
  \/ \E v \in Versions : Encode(v)
  \/ \E v \in Versions : EncodeBatch(v)

(* ----------------------------------------- the other specifications idle *)
GroupIdle ==
  /\ current_ = 0
  /\ gqueue = << >>
  /\ gpending = << >>
  /\ gpc = << >>
  /\ gsel = << >>
  /\ gadded = << >>
  /\ routed = << >>
  /\ ghandled = << >>
  /\ gphase = "idle"
  /\ gmember = << >>
  /\ ginit = << >>
  /\ grun = << >>

QueryIdle ==
  /\ query_size = 0
  /\ buffers = << >>
  /\ value_names_ = << >>
  /\ has_names = FALSE
  /\ page_size = -1
  /\ paging_state = 0
  /\ serial_consistency = 0
  /\ bufs = << >>
  /\ encodes = 0
  /\ first_ret = << >>
  /\ call = NoCall

LoopIdle ==
  /\ LoopInit
  /\ have_sigtimedwait = FALSE
  /\ schedulers = {}

(* --------------------------------------------- the single-loop behaviour *)
Init == LoopInit /\ GroupIdle /\ QueryIdle

Next ==
  \/ EventLoopInit
  \/ EventLoopRun
  \/ CloseHandlesStore
  \/ CloseHandlesSend
  \/ JoinBegin
  \/ JoinReturn
  \/ \E p \in Producers : AddEnqueue(p)
  \/ \E p \in Producers : AddSend(p)
  \/ OnTask
  \/ HandleTaskDequeue
  \/ HandleTaskRun
  \/ HandleTaskLoadClosing
  \/ HandleTaskIsEmpty
  \/ HandleTaskCloseHandle
  \/ HandleTaskStoreClosing
  \/ HandleRunExit

Spec == Init /\ [][Next]_vars

\* Every thread that can take a step eventually takes it: the loop thread, a
\* producer or the owner inside a call it has begun, and uv_thread_join.
\* Starting a call (add, close_handles, join) is left to the caller.
Fairness ==
  /\ WF_vars(LoopThread)
  /\ WF_vars(CloseHandlesSend)
  /\ WF_vars(JoinReturn)
  /\ \A p \in Producers : WF_vars(AddSend(p))

\* The liveness runs take the sigtimedwait build, whose loop thread has both the
\* wake handle and the prepare handle to close before uv_run returns, and the
\* workload whose tasks add nothing themselves.
FairInit == Init /\ have_sigtimedwait = TRUE /\ schedulers = {}

FairSpec == FairInit /\ [][Next]_vars /\ Fairness


(* ------------------------------------------------- the group behaviour *)
GroupSpecInit == LoopIdle /\ GroupInit /\ QueryIdle

GroupSpec == GroupSpecInit /\ [][GroupNext]_vars

(* ------------------------------------------------- the request behaviour *)
QuerySpecInit == LoopIdle /\ GroupIdle /\ QueryInit

QuerySpec == QuerySpecInit /\ [][QueryNext]_vars

(* ================================================================ claims *)
\* The task handle_task has dequeued and not yet run.
InFlight == IF lpc = "task_run" THEN << task >> ELSE << >>

\* The loop thread is waiting in uv_run with nothing to wake it.
Quiescent ==
  /\ lpc = "uv_run"
  /\ async_.state = "open"
  /\ ~async_.pending
  /\ \A p \in Producers : ppc[p] = "idle"

\* C1: the tasks passed to add() on a running loop are run exactly once each and
\* in enqueue order: at every moment the tasks enqueued so far are exactly the
\* tasks already run, then the one being run, then the queue, in that order
\* (nothing duplicated, reordered or dropped), and whenever the running loop has
\* gone back to waiting with no wake pending and no add() in progress, every
\* enqueued task has been run.
C1_FifoExactlyOnce ==
  /\ enqueued = executed \o InFlight \o queue_
  /\ Quiescent => executed = enqueued

\* C1 witness: a running loop, not closing, has run every task of both
\* producers and waits again.
C1_Witness ==
  /\ Quiescent
  /\ closes = 0
  /\ mpc = "running"
  /\ Len(executed) = MaxTasks * Cardinality(Producers) + Cardinality(schedulers)
  /\ executed = enqueued

\* C2: on a running loop, once close_handles() has been called the loop thread
\* eventually exits and no join() is left blocked (a join() that was waiting
\* has returned), whatever the producers were doing when close_handles() was
\* called.
C2_CloseThenJoinReturns ==
  (closes > 0 /\ lpc # "none") ~> (lpc = "exited" /\ mpc # "joining")

\* C2 witness: join() has returned after a close_handles() that raced with
\* add(): tasks were enqueued, some of them after the closing flag was set.
C2_Witness ==
  /\ mpc = "joined"
  /\ lpc = "exited"
  /\ before_close # Range(enqueued)
  /\ before_close # {}

\* C3: when the wake handle is closed, every task whose enqueue completed before
\* close_handles() set the closing flag has been run.
C3_DrainedBeforeClosed ==
  async_.state = "closed" => before_close \subseteq Range(executed)

\* C3 witness: the handle is closed and several tasks had been enqueued before
\* the closing flag was set.
C3_Witness ==
  /\ async_.state = "closed"
  /\ Cardinality(before_close) >= 2

\* C4: every task that add() has placed in the TaskQueue is eventually run,
\* tasks added concurrently with or after close_handles() included.
C4_EnqueuedEventuallyExecutes ==
  \A p \in Producers : \A n \in 1..MaxTasks :
    (<< p, n >> \in Range(enqueued)) ~> (<< p, n >> \in Range(executed))

\* C4, the finite form: once the loop thread has exited, no enqueued task is
\* left unexecuted.
C4_NothingLeftAtExit ==
  lpc = "exited" => Range(enqueued) \subseteq Range(executed)


\* The tasks member loop i has received: those it has run and those in its queue.
Received(i) == ghandled[i] \o gqueue[i]

\* The member loop on which the task of producer p's n-th add() was enqueued.
LoopOf(p, n) ==
  CHOOSE i \in Loops : \E k \in 1..Len(Received(i)) :
    Received(i)[k].by = p /\ Received(i)[k].n = n

\* C5: the add() call that drew counter value i enqueues its task on member loop
\* i mod K and returns that loop; the counter values drawn are 0, 1, 2, ... with
\* none repeated or skipped; and whenever M add() calls have completed and none
\* is in progress every member loop has received floor(M/K) or ceil(M/K) tasks.
C5_RoundRobin ==
  /\ \A i \in Loops : \A k \in 1..Len(Received(i)) :
       Received(i)[k].ticket % GroupSize = i
  /\ \A i \in Loops : \A j \in Loops : \A k \in 1..Len(Received(i)) :
       \A l \in 1..Len(Received(j)) :
         Received(i)[k].ticket = Received(j)[l].ticket => (i = j /\ k = l)
  /\ \A i \in Loops : \A k \in 1..Len(Received(i)) :
       Received(i)[k].ticket \in 0..(current_ - 1)
  /\ \A k \in 1..Len(routed) : routed[k].ret = LoopOf(routed[k].by, routed[k].n)
  /\ (\A p \in GroupProducers : gpc[p] = "idle") =>
       \A i \in Loops :
         Len(Received(i)) \in { Len(routed) \div GroupSize,
                                (Len(routed) + GroupSize - 1) \div GroupSize }

\* C5 witness: more add() calls than member loops have completed, from both
\* producers, so the cursor has wrapped around the group, and none is in progress.
C5_Witness ==
  /\ \A p \in GroupProducers : gpc[p] = "idle" /\ gadded[p] > 0
  /\ Len(routed) > GroupSize
  /\ Len(routed) % GroupSize # 0


\* The buffers the last call appended to the caller's list.
Appended == SubSeq(bufs, Len(call.bufs_before) + 1, Len(bufs))

\* The sum of the sizes of a list of buffers.
RECURSIVE SumSizes(_)
SumSizes(bs) == IF bs = << >> THEN 0 ELSE Head(bs).size + SumSizes(Tail(bs))

\* The parameter buffers among those appended: everything but body and paging.
IsParameterBuffer(b) == b.kind \notin {"body", "paging", "v1", "batch"}

\* (name, value) pairs for the bound names, first bound first, each name with
\* the positional value of its index.
ExpectedPairs ==
  [k \in 1..(2 * Len(value_names_)) |->
     IF k % 2 = 1 THEN NameBuffer(value_names_[(k + 1) \div 2])
                  ELSE ValueBuffer((k \div 2) - 1)]

\* C6: encoding a request that uses named parameters under version 2 returns
\* ENCODE_ERROR_UNSUPPORTED_PROTOCOL and leaves the output list unchanged; under
\* version 3 it succeeds and appends the (name, value) pairs in the order the
\* names were first bound.
C6_NamedValuesNeedV3 ==
  (call.op = "encode" /\ has_names /\ ~call.crashed) =>
    /\ call.version = 2 =>
         (call.ret = ENCODE_ERROR_UNSUPPORTED_PROTOCOL /\ bufs = call.bufs_before)
    /\ call.version = 3 =>
         (call.ret >= 0 /\ SelectSeq(Appended, IsParameterBuffer) = ExpectedPairs)

\* C6, the part the code keeps: under version 2 the error code is returned and
\* no name or value buffer is appended.
C6_ErrorCodeReturned ==
  (call.op = "encode" /\ has_names /\ ~call.crashed /\ call.version = 2) =>
    (call.ret = ENCODE_ERROR_UNSUPPORTED_PROTOCOL
       /\ SelectSeq(Appended, IsParameterBuffer) = << >>)

\* C7: the number of distinct bound names never exceeds the number N of
\* positional slots, and a get_indices() call with a new name when N names are
\* already bound returns 0 and leaves the bindings unchanged.
C7_NamesBoundedBySlots ==
  /\ Len(value_names_) <= buffers_count
  /\ (/\ call.op = "get_indices"
      /\ call.name \notin Range(call.names_before)
      /\ Len(call.names_before) >= buffers_count)
       => (call.ret = 0 /\ value_names_ = call.names_before)

\* C7, what the code does instead: one name more than N is accepted.
C7_NamesBoundedBySlotsPlusOne ==
  Len(value_names_) <= buffers_count + 1

\* The paging buffer the last encode appended holds a 4-byte page-size field.
HasPageSizeField ==
  \E k \in 1..Len(Appended) :
    /\ Appended[k].kind = "paging"
    /\ \E w \in 1..Len(Appended[k].writes) :
         /\ Appended[k].writes[w].field = "page_size"
         /\ Appended[k].writes[w].len = SizeofInt32

\* C8: under any version >= 2 the PAGE_SIZE bit of the flags byte is set iff
\* the page size is >= 0, and the paging buffer holds the 4-byte page-size field
\* exactly when the bit is set.
C8_PageSizeFlag ==
  (call.op = "encode" /\ call.version >= 2 /\ ~call.crashed) =>
    /\ ("PAGE_SIZE" \in Appended[1].flags) <=> (page_size >= 0)
    /\ ("PAGE_SIZE" \in Appended[1].flags) <=> HasPageSizeField

\* C9: whenever encode() succeeds, the length it returns is the sum of the sizes
\* of the buffers that call appended to the output list.
C9_LengthIsSum ==
  (call.op = "encode" /\ ~call.crashed /\ call.ret >= 0) =>
    call.ret = SumSizes(Appended)

\* C9 witness: a successful encode under version >= 3 of a request with two
\* named parameters and paging fields: body, two (name, value) pairs, paging.
C9_Witness ==
  /\ call.op = "encode"
  /\ ~call.crashed
  /\ call.version >= 3
  /\ has_names
  /\ Len(value_names_) = 2
  /\ buffers_count = 2
  /\ Len(Appended) = 6
  /\ Appended[6].kind = "paging"
  /\ call.ret = SumSizes(Appended)

\* C10: get_indices() called again with a name that is already bound returns
\* the index its first call returned and binds nothing: the bound names and the
\* next free index are as before the call, and no name is ever bound twice.
C10_SameNameSameIndex ==
  /\ (call.op = "get_indices" /\ call.name \in Range(call.names_before)) =>
       /\ call.ret = 1
       /\ call.indices = first_ret[call.name]
       /\ value_names_ = call.names_before
  /\ \A i \in 1..Len(value_names_) : \A j \in 1..Len(value_names_) :
       value_names_[i] = value_names_[j] => i = j

\* C10 witness: with two names bound, get_indices() was called again with the
\* second of them and returned its index, 1.
C10_Witness ==
  /\ call.op = "get_indices"
  /\ Len(call.names_before) = 2
  /\ buffers_count = 2
  /\ call.name = call.names_before[2]
  /\ call.indices = << 1 >>

\* close_handles() calls the owner has begun: those that returned and the one
\* it is inside.
CloseCalls ==
  closes + (IF mpc \in {"close_send", "close_send_inited"} THEN 1 ELSE 0)

\* The loop as its shutdown leaves it after a single close_handles(): the
\* thread gone, the wake handle closed with no wake pending, the prepare
\* handle closed, is_closing_ stored back to false.
ShutDownAsByOneCall ==
  /\ lpc = "exited"
  /\ async_ = [state |-> "closed", pending |-> FALSE]
  /\ prepare_ \in {"none", "closed"}
  /\ is_closing_ = FALSE

\* C11 (as stated): close_handles() called two or more times leaves the loop in
\* the state one call leaves it in: once the loop thread has exited the loop
\* is shut down as by a single call, the closing flag cleared included,
\* however many calls there were and whenever they were made.
C11_SameStateAsOneCall ==
  lpc = "exited" => ShutDownAsByOneCall

\* C11 (amended): a close_handles() statement that finds the loop as an earlier
\* call left it (flag set; wake pending or handle no longer open) changes
\* nothing, so calls in succession leave what one call leaves; and however many
\* calls there were, the loop thread exits with the wake handle closed, no wake
\* pending and the prepare handle closed, as after one call. Only is_closing_
\* may differ: one call always leaves it false at exit, a call made after the
\* teardown leaves it true.
C11_CloseTwiceAsOnce ==
  /\ [][CloseHandlesStore /\ is_closing_
          => UNCHANGED << is_closing_, async_, prepare_, queue_ >>]_vars
  /\ [][CloseHandlesSend /\ (async_.pending \/ async_.state # "open")
          => UNCHANGED << is_closing_, async_, prepare_, queue_ >>]_vars
  /\ [](lpc = "exited" =>
          /\ async_ = [state |-> "closed", pending |-> FALSE]
          /\ prepare_ \in {"none", "closed"}
          /\ (CloseCalls = 1 => is_closing_ = FALSE))

\* C11 witness: the loop has shut down after two close_handles() calls, the
\* second made after the teardown, and the flag is left set.
C11_Witness ==
  /\ lpc = "exited"
  /\ closes = 2
  /\ is_closing_
  /\ async_.state = "closed"

\* C12: join() returns only once the loop thread has exited, and a join() that
\* finds the loop not joinable (after an earlier join() returned, or after a
\* run() that failed) returns at once: it does not enter uv_thread_join and it
\* changes no member of the loop; uv_thread_join is entered only from a
\* running loop, hence at most once.
C12_JoinBlocksAndIsIdempotent ==
  /\ [](mpc \in {"joined", "rejoined"} => lpc = "exited")
  /\ [][JoinBegin /\ mpc \in {"joined", "run_failed"}
          => /\ mpc' = JoinNoOpPc(mpc)
             /\ UNCHANGED << is_loop_initialized_, is_joinable_, is_closing_,
                             queue_, async_, prepare_, lpc, task, executed >>]_vars
  /\ [][mpc' = "joining" /\ mpc # "joining" => mpc = "running"]_vars

\* C12 witness: a second join() has returned on a loop that was run, closed and
\* joined, and tasks had been run on it.
C12_Witness ==
  /\ mpc = "rejoined"
  /\ lpc = "exited"
  /\ executed # << >>

\* The lowest-index member whose call returns non-zero, GroupSize if none does.
FirstFailure(outcome) ==
  IF \A i \in Loops : outcome[i] = 0
    THEN GroupSize
    ELSE CHOOSE i \in Loops :
           outcome[i] # 0 /\ \A j \in Loops : j < i => outcome[j] = 0

\* What a short-circuiting, index-ordered traversal leaves: the code of the
\* first failing member (0 if none), the members below it done, that member
\* failed, the members above it untouched since the previous phase.
ShortCircuited(h, before, done, failed) ==
  LET f == FirstFailure(h.outcome) IN
    /\ h.rc = (IF f = GroupSize THEN 0 ELSE h.outcome[f])
    /\ (h.rc = 0) = (\A i \in Loops : h.outcome[i] = 0)
    /\ \A i \in Loops : gmember[i] = (CASE i < f -> done
                                          [] i = f -> failed
                                          [] OTHER -> before)

\* C13: the group's init() and run() call the members in index order and stop
\* at the first member that returns non-zero: they return that member's code,
\* members of higher index are not initialized (not started), and they return
\* 0 only when every member returned 0.
C13_ShortCircuitOnFirstFailure ==
  /\ gphase \in {"inited", "init_failed"} =>
        ShortCircuited(ginit, "new", "inited", "init_failed")
  /\ gphase \in {"running", "run_failed"} =>
        /\ ginit.rc = 0
        /\ ShortCircuited(grun, "inited", "running", "run_failed")

\* C13 witness: run() stopped at a member that is neither the first nor the
\* last, after an init() that succeeded.
C13_Witness ==
  /\ gphase = "run_failed"
  /\ FirstFailure(grun.outcome) = 1
  /\ grun.outcome[2] # 0
  /\ grun.outcome[2] # grun.rc
  /\ gmember[2] = "inited"

\* C14: a failure inside init() or run() is returned as a non-zero code and
\* leaves no partial loop: after an init() that returned non-zero the loop is
\* not marked initialized, its wake handle is not started and it has no
\* prepare handle, whichever step failed; after a run() that returned non-zero
\* the loop is not joinable and has no thread.
C14_FailureLeavesNoPartialLoop ==
  /\ mpc = "init_failed" =>
        /\ init_rc # 0
        /\ ~is_loop_initialized_
        /\ async_.state = "none"
        /\ prepare_ = "none"
  /\ mpc \in {"run_failed", "run_failed_joined"} =>
        /\ run_rc # 0
        /\ ~is_joinable_
        /\ lpc = "none"

\* C15: whatever the interleaving of add() with close_handles(), the TaskQueue
\* is empty at the moment handle_task closes the wake handle (the step that
\* calls async_.close_handle() is taken only in states whose queue is empty).
C15_QueueEmptyWhenHandleClosed ==
  [][HandleTaskCloseHandle => TaskQueueIsEmpty(queue_)]_vars

\* The positions of the loop thread inside the while loop of handle_task.
Drain == {"dequeue", "task_run"}

\* C16: wake triggers coalesce and strand no work: when the loop thread takes a
\* wake no trigger is left pending, however many were sent, and it enters one
\* drain; a drain ends only on an empty queue; and while the wake handle is
\* open, whenever the queue is non-empty and no add() is between its enqueue and
\* its trigger, the loop thread is inside a drain or a wake is pending.
C16_WakesCoalesceNothingStranded ==
  /\ [][OnTask => ~async_'.pending /\ lpc' \in Drain]_vars
  /\ [][(lpc \in Drain /\ lpc' \notin Drain)
          => (queue_ = << >> /\ queue_' = << >>)]_vars
  /\ []((/\ async_.state = "open"
         /\ ~TaskQueueIsEmpty(queue_)
         /\ \A p \in Producers : ppc[p] = "idle")
        => (lpc \in Drain \/ async_.pending))

\* C16 witness: both producers have enqueued and triggered before the loop
\* thread took any wake: one wake is pending for two tasks.
C16_Witness ==
  /\ lpc = "uv_run"
  /\ async_.pending
  /\ Len(queue_) >= 2
  /\ executed = << >>
  /\ \A p \in Producers : ppc[p] = "idle" /\ added[p] >= 1

\* C17: the loop thread does not hold lock_ while a task's run() executes
\* (dequeue has released it), so a task that calls add() on its own loop gets
\* the lock: once it has run, the task it added has been enqueued, and by the
\* time the loop thread leaves the drain it is in, that task has been run by
\* this loop.
C17_SelfSchedulingRuns ==
  /\ lpc = "task_run" => lock_ # "loop"
  /\ \A t \in schedulers :
       t \in Range(executed) =>
         /\ Child(t) \in Range(enqueued)
         /\ lpc \notin Drain => Child(t) \in Range(executed)

\* C17 witness: a task added by a running task has been run, on a loop that
\* was closing while it did.
C17_Witness ==
  /\ \E t \in schedulers : Child(t) \in Range(executed)
  /\ closes > 0
  /\ lpc = "exited"

\* C19: the wake handle is closed at most once (the closing step is taken only
\* on an open handle, and a closed handle stays closed), and once it is closed
\* handle_task is not entered again and no task is run, whatever close_handles()
\* and add() calls are made before or after.
C19_ClosedOnceNothingAfter ==
  /\ [][HandleTaskCloseHandle => async_.state = "open"]_vars
  /\ [][async_.state = "closed"
          => /\ async_'.state = "closed"
             /\ ~async_'.pending
             /\ executed' = executed]_vars
  /\ [](async_.state = "closed" => lpc \in {"store_closing", "uv_run", "exited"})

\* C19 witness: the handle is closed, close_handles() and add() were both
\* called after it was, and the task added then sits in the queue, not run.
C19_Witness ==
  /\ async_.state = "closed"
  /\ closes = MaxClose
  /\ is_closing_
  /\ lpc = "exited"
  /\ queue_ # << >>

\* The bytes the writes recorded on a buffer add up to.
RECURSIVE WrittenBytes(_)
WrittenBytes(ws) == IF ws = << >> THEN 0 ELSE Head(ws).len + WrittenBytes(Tail(ws))

\* The paging buffers among those the last call appended.
PagingAppended == SelectSeq(Appended, LAMBDA b : b.kind = "paging")

\* C18: for encode() under version >= 2, whatever the page size (negative,
\* zero, positive), the paging state (empty or not) and the serial consistency
\* (zero or not), at most one paging buffer is appended, no field is written
\* past the size it was allocated with, and the fields written add up to
\* exactly that size.
C18_PagingWritesFillBuffer ==
  (call.op = "encode" /\ call.version >= 2) =>
    /\ Len(PagingAppended) <= 1
    /\ \A k \in 1..Len(PagingAppended) :
         /\ ~Overflows(PagingAppended[k])
         /\ WrittenBytes(PagingAppended[k].writes) = PagingAppended[k].size

\* C20: encode_batch() writes only inside the buffer it allocated: the kind
\* byte, the long string and the value count end at or before buf_size, for
\* every query length and parameter configuration.
C20_BatchWritesInsideBuffer ==
  call.op = "encode_batch" =>
    /\ Appended[1].kind = "batch"
    /\ ~Overflows(Appended[1])
====
